---- MODULE Spec2Model ----
(***************************************************************************)
(* Model of the 6502 emulator core of src/src/main.rs: the MEM byte store, *)
(* the CPU record, reset, the fetch/read primitives and the exec dispatch  *)
(* loop with its four opcodes.                                             *)
(*                                                                         *)
(* Rust integer arithmetic (+=, -=, +, -) panics on overflow when the      *)
(* build has overflow checks (the default dev profile) and wraps when it   *)
(* has not (the default release profile).  The variable overflow_checks   *)
(* is fixed in Init and selects between the two outcomes.                  *)
(*                                                                         *)
(* TLC's integers are 32-bit signed, so the u32 cycle counter is held in   *)
(* its two's-complement reading: 0 .. 2^31-1 stand for themselves and a    *)
(* negative r stands for the u32 value 2^32 + r (-1 is 0xFFFFFFFF).        *)
(***************************************************************************)
EXTENDS Integers, Naturals, FiniteSets, Sequences, TLC

\* ---- widths and program constants -------------------------------------
W8  == 256
W16 == 65536
MEM_SIZE == 65536
INS_LDA_IM   == 169
INS_LDA_ZP   == 165
INS_LDA_ZP_X == 181
INS_JSR      == 32
RESET_PC == 65532
RESET_SP == 255

\* ---- bounds of the model ----------------------------------------------
\* largest cycle budget a caller passes to exec
MaxBudget == 6
\* exec iterations are explored while at most this many cycles were consumed
MaxConsumed == 8
\* number of bytes the host stores into memory
MaxPokes == 2
\* number of exec calls the host makes
MaxCalls == 2

\* addresses and byte values of the program image the host stores
\* (mem[idx] = v): the first bytes at CPU's initial pc and at the reset pc
PokeAddrs == {0, 1, 2, 65532, 65533}
PokeVals  == {INS_LDA_IM, INS_LDA_ZP, INS_LDA_ZP_X, INS_JSR}

VARIABLES
    cpu,              \* the CPU struct
    mem,              \* MEM.data, sparse: bytes that differ from the zero fill
    cycles,           \* the u32 behind exec's `cycles: &mut u32`
    budget,           \* the value the caller passed in that u32
    mode,             \* "idle" (outside exec), "exec" (inside the loop), "panicked"
    panic,            \* which panic ended the process, or "none"
    overflow_checks,  \* build profile: TRUE = arithmetic overflow panics
    last,             \* the operation that produced this state
    pre,              \* cpu, mem and cycles as they were before that operation
    pokes,            \* number of host stores so far
    calls,            \* number of exec calls so far
    args,             \* arguments of a primitive called directly (none inside exec)
    ret               \* what that call returned

vars == <<cpu, mem, cycles, budget, mode, panic, overflow_checks, last, pre, pokes, calls, args, ret>>

\* ---- MEM ----------------------------------------------------------------
\* Index<usize> for MEM: &self.data[index]; the array is zero-filled by main
Read(m, index) == IF index \in DOMAIN m THEN m[index] ELSE 0

\* IndexMut<usize> for MEM followed by a store (a zero byte is the fill again)
Store(m, index, v) ==
    IF v = 0 THEN [i \in (DOMAIN m) \ {index} |-> m[i]]
    ELSE [i \in (DOMAIN m) \cup {index} |-> IF i = index THEN v ELSE m[i]]

\* slice indexing panics when index >= data.len()
InBounds(index) == index >= 0 /\ index < MEM_SIZE

ZeroMem == [i \in {} |-> 0]

\* ---- checked / wrapping arithmetic of the build -------------------------
\* `self.pc += 1` on a u16
inc_pc(c) ==
    IF c.panic # "none" THEN c
    ELSE IF c.cpu.pc + 1 >= W16
         THEN IF overflow_checks THEN [c EXCEPT !.panic = "pc_overflow"]
              ELSE [c EXCEPT !.cpu.pc = (c.cpu.pc + 1) % W16]
         ELSE [c EXCEPT !.cpu.pc = c.cpu.pc + 1]

\* the u32 r is smaller than the small constant k
U32Less(r, k) == r >= 0 /\ r < k

\* `>= 0` on a u32 is always true
U32NonNegative(r) == TRUE

\* the u32 r is > 0
U32Positive(r) == r # 0

\* `*cycles -= k` on a u32: below zero the subtraction wraps to 2^32 + (r - k)
dec_cycles(c, k) ==
    IF c.panic # "none" THEN c
    ELSE IF U32Less(c.cycles, k)
         THEN IF overflow_checks THEN [c EXCEPT !.panic = "cycles_underflow"]
              ELSE [c EXCEPT !.cycles = c.cycles - k]
         ELSE [c EXCEPT !.cycles = c.cycles - k]

\* ---- CPU primitives -----------------------------------------------------
\* A context c is [cpu, mem, cycles, panic, data]: the three &mut arguments,
\* the panic raised so far and the value returned by the last primitive.
Ctx(cp, m, cy) == [cpu |-> cp, mem |-> m, cycles |-> cy, panic |-> "none", data |-> 0]

fetch_byte(c) ==
    IF c.panic # "none" THEN c
    ELSE dec_cycles(inc_pc([c EXCEPT !.data = Read(c.mem, c.cpu.pc)]), 1)

fetch_word(c) ==
    LET c1 == fetch_byte(c)
        c2 == fetch_byte(c1)
    IN  IF c2.panic # "none" THEN c2
        ELSE [c2 EXCEPT !.data = c1.data + c2.data * W8]

\* read_byte that forgets to charge its cycle
read_byte_free(c, addr) ==
    IF c.panic # "none" THEN c
    ELSE inc_pc([c EXCEPT !.data = Read(c.mem, addr)])

read_byte(c, addr) ==
    IF c.panic # "none" THEN c
    ELSE dec_cycles(inc_pc([c EXCEPT !.data = Read(c.mem, addr)]), 1)

\* lda_set_status that sets N and never clears it
lda_set_status_sticky_n(c) ==
    IF c.panic # "none" THEN c
    ELSE [c EXCEPT !.cpu.Z = (c.cpu.a = 0),
                   !.cpu.N = (c.cpu.N \/ ((c.cpu.a \div 128) % 2 = 1))]

\* lda_set_status that leaves Z as it was
lda_set_status_stale_z(c) ==
    IF c.panic # "none" THEN c
    ELSE [c EXCEPT !.cpu.N = ((c.cpu.a \div 128) % 2 = 1)]

lda_set_status(c) ==
    IF c.panic # "none" THEN c
    ELSE [c EXCEPT !.cpu.Z = (c.cpu.a = 0),
                   !.cpu.N = ((c.cpu.a \div 128) % 2 = 1)]

\* a load that also clears the carry
set_a_clc(c, v) == IF c.panic # "none" THEN c ELSE [c EXCEPT !.cpu.a = v, !.cpu.C = 0]

\* `self.a = value`
set_a(c, v) == IF c.panic # "none" THEN c ELSE [c EXCEPT !.cpu.a = v]

\* write_word that stores the high byte first
write_word_big_endian(c, data, addr) ==
    IF c.panic # "none" THEN c
    ELSE LET c1 == [c EXCEPT !.mem = Store(c.mem, addr, data \div W8)]
         IN  IF ~InBounds(addr + 1) THEN [c1 EXCEPT !.panic = "index_out_of_bounds"]
             ELSE dec_cycles([c1 EXCEPT !.mem = Store(c1.mem, addr + 1, data % W8)], 2)

write_word(c, data, addr) ==
    IF c.panic # "none" THEN c
    ELSE LET c1 == [c EXCEPT !.mem = Store(c.mem, addr, data % W8)]
         IN  IF ~InBounds(addr + 1) THEN [c1 EXCEPT !.panic = "index_out_of_bounds"]
             ELSE dec_cycles([c1 EXCEPT !.mem = Store(c1.mem, addr + 1, data \div W8)], 2)

\* reset that clears the whole status register
reset_clear_flags(cp) ==
    [cp EXCEPT !.pc = RESET_PC, !.sp = RESET_SP, !.D = 0, !.a = 0, !.x = 0, !.y = 0,
               !.C = 0, !.Z = FALSE, !.I = 0, !.B = 0, !.V = 0, !.N = FALSE]

reset(cp) ==
    [cp EXCEPT !.pc = RESET_PC, !.sp = RESET_SP, !.D = 0, !.a = 0, !.x = 0, !.y = 0]

\* ---- the arms of exec's match -------------------------------------------
\* 0xA9
ins_lda_im(c) ==
    LET c1 == fetch_byte(c)
    IN  lda_set_status(set_a(c1, c1.data))

\* 0xA5
ins_lda_zp(c) ==
    LET c1 == fetch_byte(c)
        c2 == read_byte(c1, c1.data)
    IN  lda_set_status(set_a(c2, c2.data))

\* `self.fetch_byte(cycles, mem) + self.x` on two u8
add_x(c) ==
    IF c.panic # "none" THEN c
    ELSE IF c.data + c.cpu.x >= W8
         THEN IF overflow_checks THEN [c EXCEPT !.panic = "add_overflow"]
              ELSE [c EXCEPT !.data = (c.data + c.cpu.x) % W8]
         ELSE [c EXCEPT !.data = c.data + c.cpu.x]

\* 0xB5
ins_lda_zp_x(c) ==
    LET c1 == add_x(fetch_byte(c))
        c2 == dec_cycles(c1, 1)
        c3 == read_byte(c2, c2.data)
    IN  lda_set_status(set_a(c3, c3.data))

\* `self.pc - 1` on a u16, the first argument of write_word
pc_minus_1(c) ==
    IF c.panic # "none" THEN c
    ELSE IF c.cpu.pc = 0
         THEN IF overflow_checks THEN [c EXCEPT !.panic = "pc_underflow"]
              ELSE [c EXCEPT !.data = W16 - 1]
         ELSE [c EXCEPT !.data = c.cpu.pc - 1]

\* `self.pc = subAddr`
set_pc(c, v) == IF c.panic # "none" THEN c ELSE [c EXCEPT !.cpu.pc = v]

\* 0x20
ins_jsr(c) ==
    LET c1 == fetch_word(c)
        c2 == pc_minus_1(c1)
        c3 == write_word(c2, c2.data, c2.cpu.sp)
        c4 == set_pc(c3, c1.data)
    IN  dec_cycles(c4, 1)

Legal == {INS_LDA_IM, INS_LDA_ZP, INS_LDA_ZP_X, INS_JSR}

\* ---- the state machine --------------------------------------------------
\* cycles taken from the caller's u32 since exec was called
Consumed == budget - cycles

Snapshot == [cpu |-> cpu, mem |-> mem, cycles |-> cycles]

\* CPU { .. } with x register xx and f in the fields no instruction writes
NewCPU(xx, f) ==
    [pc |-> 0, sp |-> 0, a |-> 0, x |-> xx, y |-> f,
     C |-> f, Z |-> FALSE, I |-> f, D |-> f, B |-> f, V |-> f, N |-> FALSE]

\* the CPUs the host constructs: main's all-zero one, and one with the flags
\* set and x = 0x57 (0xA9 + 0x57 = 0x100, 0x20 + 0x57 = 0x77)
InitCPUs == {NewCPU(0, 0), NewCPU(87, 1)}

Init ==
    /\ cpu \in InitCPUs
    /\ mem = ZeroMem
    /\ cycles = 0
    /\ budget = 0
    /\ mode = "idle"
    /\ panic = "none"
    /\ overflow_checks \in BOOLEAN
    /\ last = "new"
    /\ pre = [cpu |-> cpu, mem |-> ZeroMem, cycles |-> 0]
    /\ pokes = 0
    /\ calls = 0
    /\ args = << >>
    /\ ret = 0

\* cpu.reset(&mut mem)
Reset ==
    /\ mode = "idle"
    /\ cpu' = reset(cpu)
    /\ last' = "reset"
    /\ pre' = Snapshot
    /\ UNCHANGED <<mem, cycles, budget, mode, panic, overflow_checks, pokes, calls, args, ret>>

\* mem[a] = v by the host, while it loads the program image before the
\* first exec call
Poke(a, v) ==
    /\ mode = "idle"
    /\ pokes < MaxPokes
    /\ calls = 0
    /\ mem' = Store(mem, a, v)
    /\ pokes' = pokes + 1
    /\ last' = "poke"
    /\ pre' = Snapshot
    /\ UNCHANGED <<cpu, cycles, budget, mode, panic, overflow_checks, calls, args, ret>>

\* cpu.exec(&mut n, &mut mem): entry
ExecCall(n) ==
    /\ mode = "idle"
    /\ calls < MaxCalls
    /\ calls' = calls + 1
    /\ cycles' = n
    /\ budget' = n
    /\ mode' = "exec"
    /\ last' = "exec"
    /\ pre' = Snapshot
    /\ UNCHANGED <<cpu, mem, panic, overflow_checks, pokes, args, ret>>

\* `while *cycles > 0` is false: exec returns
ExecReturn ==
    /\ mode = "exec"
    /\ cycles = 0
    /\ mode' = "idle"
    /\ last' = "exhausted"
    /\ pre' = Snapshot
    /\ UNCHANGED <<cpu, mem, cycles, budget, panic, overflow_checks, pokes, calls, args, ret>>

\* one iteration of the loop is entered
LoopGuard == mode = "exec" /\ U32Positive(cycles) /\ Consumed <= MaxConsumed

\* the opcode fetch of the iteration
Fetched == fetch_byte(Ctx(cpu, mem, cycles))

\* the iteration ends in context c
Commit(c, name, nextMode) ==
    /\ cpu' = c.cpu
    /\ mem' = c.mem
    /\ cycles' = c.cycles
    /\ panic' = c.panic
    /\ mode' = IF c.panic # "none" THEN "panicked" ELSE nextMode
    /\ last' = name
    /\ pre' = Snapshot
    /\ UNCHANGED <<budget, overflow_checks, pokes, calls, args, ret>>

LDA_IM ==
    /\ LoopGuard
    /\ Read(mem, cpu.pc) = INS_LDA_IM
    /\ Commit(ins_lda_im(Fetched), "LDA_IM", "exec")

LDA_ZP ==
    /\ LoopGuard
    /\ Read(mem, cpu.pc) = INS_LDA_ZP
    /\ Commit(ins_lda_zp(Fetched), "LDA_ZP", "exec")

LDA_ZP_X ==
    /\ LoopGuard
    /\ Read(mem, cpu.pc) = INS_LDA_ZP_X
    /\ Commit(ins_lda_zp_x(Fetched), "LDA_ZP_X", "exec")

JSR ==
    /\ LoopGuard
    /\ Read(mem, cpu.pc) = INS_JSR
    /\ Commit(ins_jsr(Fetched), "JSR", "exec")

\* `_ => break`
Illegal ==
    /\ LoopGuard
    /\ Read(mem, cpu.pc) \notin Legal
    /\ Commit(Fetched, "illegal", "idle")

Next ==
    \/ Reset
    \/ \E a \in PokeAddrs, v \in PokeVals : Poke(a, v)
    \/ \E n \in 0..MaxBudget : ExecCall(n)
    \/ ExecReturn
    \/ LDA_IM
    \/ LDA_ZP
    \/ LDA_ZP_X
    \/ JSR
    \/ Illegal

Spec == Init /\ [][Next]_vars

TypeOK ==
    /\ cpu.pc \in 0..(W16 - 1)
    /\ cpu.a \in 0..(W8 - 1)
    /\ cycles \in (0 - MaxConsumed - 8)..MaxBudget
    /\ mode \in {"idle", "exec", "panicked", "written", "read", "ran"}

\* ---- properties ---------------------------------------------------------
\* the operation `name` produced this state and ran to its end
Done(name) == last = name /\ panic = "none"

LDAs == {"LDA_IM", "LDA_ZP", "LDA_ZP_X"}
DoneLDA == last \in LDAs /\ panic = "none"

\* address of the instruction that produced this state, and its operand bytes
StartPC == pre.cpu.pc
Operand1 == Read(pre.mem, (StartPC + 1) % W16)
Operand2 == Read(pre.mem, (StartPC + 2) % W16)

\* the operand byte each LDA addressing mode resolves to
Resolved ==
    CASE last = "LDA_IM"   -> Operand1
      [] last = "LDA_ZP"   -> Read(pre.mem, Operand1)
      [] last = "LDA_ZP_X" -> Read(pre.mem, (Operand1 + pre.cpu.x) % W8)
      [] OTHER             -> 0

\* cycles the operation that produced this state took from the counter
Cost == pre.cycles - cycles

\* C1: after reset, PC is the little-endian word stored at 0xFFFC/0xFFFD.
C1_ResetReadsVector ==
    last = "reset" => cpu.pc = Read(mem, RESET_PC) + W8 * Read(mem, RESET_PC + 1)

\* C2: from any CPU state reset sets SP = 0xFF, D = 0, A = X = Y = 0 and
\* leaves the flags C, Z, I, B, V, N and every memory byte as they were.
C2_ResetEffect ==
    last = "reset" =>
        /\ cpu.sp = 255 /\ cpu.D = 0
        /\ cpu.a = 0 /\ cpu.x = 0 /\ cpu.y = 0
        /\ cpu.C = pre.cpu.C /\ cpu.Z = pre.cpu.Z /\ cpu.I = pre.cpu.I
        /\ cpu.B = pre.cpu.B /\ cpu.V = pre.cpu.V /\ cpu.N = pre.cpu.N
        /\ mem = pre.mem

\* a reset of a CPU that has run: A loaded, N set, other flags set, memory written
C2_Witness ==
    /\ last = "reset"
    /\ pre.cpu.a # 0 /\ pre.cpu.N /\ pre.cpu.C = 1 /\ pre.cpu.D = 1 /\ pre.cpu.x = 87
    /\ pre.cpu.sp # 255
    /\ mem # ZeroMem

\* C3: after any LDA, A is the resolved operand byte, Z = (A = 0) and
\* N = bit 7 of A, whatever the flags were before.
C3_LoadResult ==
    DoneLDA =>
        /\ cpu.a = Resolved
        /\ cpu.Z = (cpu.a = 0)
        /\ cpu.N = (cpu.a >= 128)
        /\ (Resolved = 0 => cpu.Z /\ ~cpu.N)
        /\ (Resolved >= 128 => cpu.N /\ ~cpu.Z)

\* a load of 0 into a CPU whose N flag was set and Z flag clear
C3_Witness ==
    /\ DoneLDA
    /\ Resolved = 0
    /\ pre.cpu.N /\ ~pre.cpu.Z

\* C4: an LDA changes only A, Z, N, PC and the cycle counter.
C4_LoadFrame ==
    DoneLDA =>
        /\ cpu.x = pre.cpu.x /\ cpu.y = pre.cpu.y /\ cpu.sp = pre.cpu.sp
        /\ cpu.C = pre.cpu.C /\ cpu.I = pre.cpu.I /\ cpu.D = pre.cpu.D
        /\ cpu.B = pre.cpu.B /\ cpu.V = pre.cpu.V
        /\ mem = pre.mem

\* an indexed load, wrapped to address 0, that changed A while every other
\* flag was set
C4_Witness ==
    /\ Done("LDA_ZP_X")
    /\ cpu.a # pre.cpu.a
    /\ pre.cpu.C = 1 /\ pre.cpu.V = 1 /\ pre.cpu.x = 87 /\ pre.cpu.y = 1
    /\ Operand1 + pre.cpu.x >= W8
    /\ mem # ZeroMem

\* C5: an Immediate LDA takes 2 cycles, a Zero-Page LDA 3, a Zero-Page,X
\* LDA 4, opcode fetch included, whatever the operand is.
C5_LoadCycles ==
    /\ Done("LDA_IM")   => Cost = 2
    /\ Done("LDA_ZP")   => Cost = 3
    /\ Done("LDA_ZP_X") => Cost = 4

\* an indexed load of a non-zero operand that was charged its 4 cycles
C5_Witness ==
    /\ Done("LDA_ZP_X")
    /\ Resolved # 0
    /\ Cost = 4

\* C6: a Zero-Page,X LDA whose base + X exceeds 255 completes normally and
\* reads its operand at (base + X) mod 256.
C6_IndexWraps ==
    ( /\ last = "LDA_ZP_X"
      /\ Operand1 + pre.cpu.x >= W8
      /\ ~U32Less(pre.cycles, 4)
      /\ StartPC + 3 < W16 )
    => (panic = "none" /\ cpu.a = Read(pre.mem, (Operand1 + pre.cpu.x) % W8))

\* C7: after a Zero-Page or Zero-Page,X LDA that started at s, PC = s + 2.
C7_OperandReadKeepsPC ==
    (Done("LDA_ZP") \/ Done("LDA_ZP_X")) => cpu.pc = (StartPC + 2) % W16

\* C8: a JSR at s with target t stores s + 2 little-endian, sets PC to t and
\* takes 6 cycles.  The two bytes are looked up where the instruction put
\* them, at the stack pointer.
C8_JsrEffect ==
    Done("JSR") =>
        /\ Read(mem, pre.cpu.sp)     = ((StartPC + 2) % W16) % W8
        /\ Read(mem, pre.cpu.sp + 1) = ((StartPC + 2) % W16) \div W8
        /\ cpu.pc = Operand1 + W8 * Operand2
        /\ Cost = 6

\* a JSR at the reset address to a non-zero target, run with its full
\* budget: both bytes of the return address 0xFFFE are non-zero and differ
C8_Witness ==
    /\ Done("JSR")
    /\ StartPC = RESET_PC
    /\ pre.cycles = 6
    /\ cpu.pc # 0
    /\ Read(mem, pre.cpu.sp) = 254
    /\ Read(mem, pre.cpu.sp + 1) = 255

\* C9: JSR writes its two bytes inside page 1 (0x0100..0x01FF) only and
\* leaves SP two lower than it was.
C9_JsrStack ==
    Done("JSR") =>
        /\ cpu.sp = (pre.cpu.sp + W8 - 2) % W8
        /\ \A i \in (DOMAIN mem) \cup (DOMAIN pre.mem) :
              Read(mem, i) # Read(pre.mem, i) => (i >= 256 /\ i <= 511)

\* C10: an illegal opcode ends exec at once, having taken the 1 cycle of its
\* fetch, and the caller can tell it from an exhausted budget.  exec returns
\* nothing; what it leaves the caller is the u32, which is 0 after every
\* return by exhaustion.
C10_IllegalReported ==
    Done("illegal") =>
        /\ mode = "idle"
        /\ Cost = 1
        /\ U32Positive(cycles)

\* the operations that fetch an opcode
Fetches == {"LDA_IM", "LDA_ZP", "LDA_ZP_X", "JSR", "illegal"}

\* C11: exec never fetches an opcode once the remaining budget is <= 0: the
\* instruction in flight when the budget runs out is completed, the total
\* consumed stays <= n + 5 and no further instruction starts.
C11_NoFetchPastBudget ==
    last \in Fetches =>
        /\ panic # "cycles_underflow"
        /\ pre.cycles >= 1
        /\ Consumed <= budget + 5

\* C13: a fetch at PC = 0xFFFF moves PC to 0x0000 and execution goes on; no
\* fetch fails and PC stays in 0..0xFFFF.
C13_PCWraps ==
    /\ panic # "pc_overflow"
    /\ cpu.pc >= 0 /\ cpu.pc < W16
    /\ (last = "illegal" /\ StartPC = W16 - 1) => (panic = "none" /\ cpu.pc = 0)

\* C15: exec with a budget of 0 is a no-op: entering exec changes nothing,
\* no opcode is fetched under a budget of 0, and the return that follows
\* leaves PC, SP, A, X, Y, the flags and memory as they were, with 0 cycles
\* consumed.
C15_ZeroBudgetNoOp ==
    /\ last = "exec" => (cpu = pre.cpu /\ mem = pre.mem)
    /\ last \in Fetches => budget # 0
    /\ (last = "exhausted" /\ budget = 0) =>
           (cpu = pre.cpu /\ mem = pre.mem /\ Consumed = 0 /\ mode = "idle")

\* a second exec call, with budget 0, on a CPU that has loaded A
C15_Witness ==
    /\ last = "exhausted"
    /\ budget = 0
    /\ calls = 2
    /\ cpu.a # 0
    /\ mem # ZeroMem

\* C16: exec stops by exhausting the budget or by an illegal opcode: while
\* the loop runs the u32 counter stays within 0 .. budget (it is the loop's
\* variant), and a budget that runs out in the middle of an instruction does
\* not abort the process.
C16_ExecStops ==
    /\ panic # "cycles_underflow"
    /\ mode = "exec" => (cycles >= 0 /\ cycles <= budget)

\* C18: Z and N are never both set, and right after an LDA Z = (A = 0) and
\* N = (A >= 128) for the A now held.
C18_FlagsExclusive ==
    /\ ~(cpu.Z /\ cpu.N)
    /\ DoneLDA => (cpu.Z = (cpu.a = 0) /\ cpu.N = (cpu.a >= 128))

\* an LDA that turned the flags from Z set to N set
C18_Witness ==
    /\ DoneLDA
    /\ pre.cpu.Z /\ ~pre.cpu.N
    /\ cpu.N /\ ~cpu.Z

\* C19: of two JSRs executed one after the other, the second writes its
\* return address to two bytes that are not the two bytes the first wrote.
C19_NestedJsr ==
    [][ (Done("JSR") /\ last' = "JSR" /\ panic' = "none")
        => ({pre.cpu.sp, pre.cpu.sp + 1} \cap {cpu.sp, cpu.sp + 1} = {}) ]_vars

\* ---- the primitives and exec called directly ----------------------------
\* words, addresses and cycle counts handed to write_word
WordVals   == {255, 4660, 65280}
WordAddrs  == {0, 255, 65534, 65535}
WordCycles == {0, 4}

\* the match of exec on the opcode just fetched in context f
arm(f) ==
    CASE f.data = INS_LDA_IM   -> ins_lda_im(f)
      [] f.data = INS_LDA_ZP   -> ins_lda_zp(f)
      [] f.data = INS_LDA_ZP_X -> ins_lda_zp_x(f)
      [] f.data = INS_JSR      -> ins_jsr(f)
      [] OTHER                 -> f

\* the wrapped counter of a build without overflow checks has run on for
\* more than MaxConsumed cycles: the loop is followed no further
Capped(c) == c.cycles < 0 - MaxConsumed

\* the loop of exec from context c, up to its return or its panic
RECURSIVE exec_loop(_)
exec_loop(c) ==
    IF ~U32Positive(c.cycles) THEN [c |-> c, stop |-> "exhausted"]
    ELSE IF Capped(c) THEN [c |-> c, stop |-> "cap"]
    ELSE LET f == fetch_byte(c)
         IN  IF f.panic # "none" THEN [c |-> f, stop |-> "panic"]
             ELSE IF f.data \notin Legal THEN [c |-> f, stop |-> "illegal"]
             ELSE LET r == arm(f)
                  IN  IF r.panic # "none" THEN [c |-> r, stop |-> "panic"]
                      ELSE exec_loop(r)

\* exec that starts from the reset state instead of the state it is given
exec_after_reset(cp, m, n) == exec_loop(Ctx(reset(cp), m, n))

\* cpu.exec(&mut n, &mut mem) as a whole
exec(cp, m, n) == exec_loop(Ctx(cp, m, n))

\* the memory images the host can build with at most k stores
RECURSIVE Images(_)
Images(k) ==
    IF k = 0 THEN {ZeroMem}
    ELSE LET s == Images(k - 1)
         IN  s \cup {Store(m, a, v) : m \in s, a \in PokeAddrs, v \in PokeVals}

\* the host stores a whole program image into the fresh memory
LoadImage(img) ==
    /\ mode = "idle"
    /\ last = "new"
    /\ mem' = img
    /\ pokes' = Cardinality(DOMAIN img)
    /\ last' = "load"
    /\ pre' = Snapshot
    /\ UNCHANGED <<cpu, cycles, budget, mode, panic, overflow_checks, calls, args, ret>>

\* mem.write_word(v, addr, &mut cy) called on the loaded memory
WriteWord(v, addr, cy) ==
    /\ mode = "idle"
    /\ LET c == write_word(Ctx(cpu, mem, cy), v, addr)
       IN  /\ mem' = c.mem
           /\ cycles' = c.cycles
           /\ panic' = c.panic
           /\ mode' = IF c.panic # "none" THEN "panicked" ELSE "written"
    /\ last' = "write_word"
    /\ pre' = [cpu |-> cpu, mem |-> mem, cycles |-> cy]
    /\ args' = <<v, addr>>
    /\ ret' = 0
    /\ UNCHANGED <<cpu, budget, overflow_checks, pokes, calls>>

\* cpu.fetch_word(&mut cycles, &mut mem) with pc at the address just written
FetchWordBack ==
    /\ mode = "written"
    /\ LET c == fetch_word(Ctx([cpu EXCEPT !.pc = args[2]], mem, cycles))
       IN  /\ cpu' = c.cpu
           /\ cycles' = c.cycles
           /\ panic' = c.panic
           /\ mode' = IF c.panic # "none" THEN "panicked" ELSE "read"
           /\ ret' = c.data
    /\ last' = "fetch_word"
    /\ pre' = Snapshot
    /\ UNCHANGED <<mem, budget, overflow_checks, pokes, calls, args>>

\* exec(n1) then exec(n2) on the same CPU and memory, n1 + n2 being a budget
\* a caller passes; ret keeps how the first call ended and what one
\* exec(n1 + n2) makes of the same start
RunSplit(n1, n2) ==
    /\ mode = "idle"
    /\ n1 + n2 <= MaxBudget
    /\ LET r1 == exec(cpu, mem, n1)
           r2 == IF r1.stop = "panic" THEN r1 ELSE exec(r1.c.cpu, r1.c.mem, n2)
           r  == exec(cpu, mem, n1 + n2)
       IN  /\ cpu' = r2.c.cpu
           /\ mem' = r2.c.mem
           /\ cycles' = r2.c.cycles
           /\ panic' = r2.c.panic
           /\ mode' = IF r2.c.panic # "none" THEN "panicked" ELSE "ran"
           /\ ret' = [first |-> r1.stop, first_left |-> r1.c.cycles,
                      second |-> r2.stop,
                      single |-> [cpu |-> r.c.cpu, mem |-> r.c.mem, stop |-> r.stop]]
    /\ last' = "split"
    /\ pre' = Snapshot
    /\ args' = <<n1, n2>>
    /\ budget' = n2
    /\ calls' = 2
    /\ UNCHANGED <<overflow_checks, pokes>>

NextFn ==
    \/ Reset
    \/ \E img \in Images(MaxPokes) : LoadImage(img)
    \/ \E v \in WordVals, addr \in WordAddrs, cy \in WordCycles : WriteWord(v, addr, cy)
    \/ FetchWordBack
    \/ \E n1 \in 0..MaxBudget, n2 \in 0..MaxBudget : RunSplit(n1, n2)

SpecFn == Init /\ [][NextFn]_vars

\* C12: write_word(v, addr) below the top of memory stores the low byte at
\* addr and the high byte at addr + 1 and changes no other byte, and
\* fetch_word with PC = addr then returns v.
C12_WordRoundTrip ==
    /\ (last = "write_word" /\ args[2] < W16 - 1) =>
          /\ Read(mem, args[2]) = args[1] % W8
          /\ Read(mem, args[2] + 1) = args[1] \div W8
          /\ \A i \in ((DOMAIN mem) \cup (DOMAIN pre.mem)) \ {args[2], args[2] + 1} :
                Read(mem, i) = Read(pre.mem, i)
    /\ (last = "fetch_word" /\ args[2] < W16 - 1 /\ ~U32Less(pre.cycles, 2)) =>
          (panic = "none" /\ ret = args[1])

\* C14: write_word(v, 0xFFFF) succeeds, with the low byte at 0xFFFF and the
\* high byte at 0x0000; no write_word reaches an index outside 0..65535.
C14_WriteWordAtTop ==
    /\ panic # "index_out_of_bounds"
    /\ (last = "write_word" /\ args[2] = W16 - 1) =>
          /\ Read(mem, W16 - 1) = args[1] % W8
          /\ Read(mem, 0) = args[1] \div W8

\* both calls of the split returned, and so did the single call
SplitReturned ==
    /\ last = "split"
    /\ ret.second \in {"exhausted", "illegal"}
    /\ ret.single.stop \in {"exhausted", "illegal"}

\* C17 as stated: when the first call used up exactly its n1 cycles on whole
\* instructions, exec(n1); exec(n2) leaves the registers, flags, PC and
\* memory that exec(n1 + n2) leaves.
C17_SplitAtBoundary ==
    (SplitReturned /\ ret.first \in {"exhausted", "illegal"} /\ ret.first_left = 0)
    => (cpu = ret.single.cpu /\ mem = ret.single.mem)

\* C17 amended: the same, when none of those first instructions is an
\* illegal opcode, that is when the first call returns by exhaustion.
C17_SplitAtExhaustion ==
    (SplitReturned /\ ret.first = "exhausted")
    => (cpu = ret.single.cpu /\ mem = ret.single.mem)

\* both calls ran at least one whole instruction and returned by exhaustion
C17_Witness ==
    /\ SplitReturned
    /\ ret.first = "exhausted" /\ ret.second = "exhausted"
    /\ args[1] >= 2 /\ args[2] >= 2
    /\ cpu.a # pre.cpu.a
    /\ cpu.pc # pre.cpu.pc

====
